---- MODULE Spec2Model ----
(***************************************************************************)
(* Model of islandora_relationships_modifier: relationships/modify.py      *)
(* (class FedoraObject) and run.py (the command-line dispatcher).          *)
(*                                                                         *)
(* Python strings are sequences of one-character strings, so that quote,   *)
(* split, rstrip and replace are computed character by character.  The     *)
(* Fedora repository is the environment: it answers every request with a   *)
(* status code (and a body for GET) chosen nondeterministically, and it    *)
(* applies an add or a purge exactly when it answers 200.                  *)
(***************************************************************************)
EXTENDS Integers, Sequences, FiniteSets, TLC

VARIABLES
    pc,               \* position of the run: run.py / the recipe being executed
    model,            \* args.model
    pid,              \* args.pid
    triples,          \* the repository's relationships of the object
    start_triples,    \* the repository's relationships when the run started
    log,              \* the client calls made so far: request, response status, how the call ended
    pid_parent,       \* local of convert_page_to_part_of_compound_object
    sequence_number,  \* local of convert_page_to_part_of_compound_object
    message,          \* local dict of convert_page_to_part_of_compound_object, in insertion order
    outcome,          \* how the run ended: a returned value, a raised error, or nothing yet
    stdout            \* what run.py printed

vars == <<pc, model, pid, triples, start_triples, log, pid_parent, sequence_number,
          message, outcome, stdout>>

-----------------------------------------------------------------------------
(* Bounds of the model *)

\* how many of the PIDs of PidList are given on the command line
NumPids == 2
\* how many of the response bodies of ParentBodyList / SequenceBodyList the repository may answer with
NumBodies == 6

(* Program constants *)
OK == 200

-----------------------------------------------------------------------------
(* Python string primitives *)

\* str.rstrip() strips trailing whitespace
Whitespace == {" ", "\n", "\t", "\r"}

\* urllib.parse.quote never quotes these ("_.-~" and the alphanumerics); safe='' adds none
AlwaysSafe ==
    {"a","b","c","d","e","f","g","h","i","j","k","l","m","n","o","p","q","r","s","t","u","v","w","x","y","z",
     "A","B","C","D","E","F","G","H","I","J","K","L","M","N","O","P","Q","R","S","T","U","V","W","X","Y","Z",
     "0","1","2","3","4","5","6","7","8","9","_",".","-","~"}

\* the %XX escape of a character that is not safe (upper-case hex of its byte)
PercentCode(c) ==
    CASE c = " "  -> <<"%","2","0">>
      [] c = "\n" -> <<"%","0","A">>
      [] c = "\"" -> <<"%","2","2">>
      [] c = "#"  -> <<"%","2","3">>
      [] c = "/"  -> <<"%","2","F">>
      [] c = ":"  -> <<"%","3","A">>
      [] c = "<"  -> <<"%","3","C">>
      [] c = "="  -> <<"%","3","D">>
      [] c = ">"  -> <<"%","3","E">>

RECURSIVE quote(_, _)
quote(s, safe) ==
    IF s = <<>> THEN <<>>
    ELSE (IF Head(s) \in AlwaysSafe \cup safe THEN <<Head(s)>> ELSE PercentCode(Head(s)))
         \o quote(Tail(s), safe)

\* does sep occur in s at position i
OccursAt(s, sep, i) ==
    /\ i + Len(sep) - 1 <= Len(s)
    /\ \A k \in 1..Len(sep) : s[i + k - 1] = sep[k]

\* position of the first occurrence of sep in s at or after i, 0 if none
RECURSIVE Find(_, _, _)
Find(s, sep, i) ==
    IF i + Len(sep) - 1 > Len(s) THEN 0
    ELSE IF OccursAt(s, sep, i) THEN i
    ELSE Find(s, sep, i + 1)

\* str.split(sep): the list of the pieces of s between the occurrences of sep
RECURSIVE split(_, _)
split(s, sep) ==
    LET i == Find(s, sep, 1) IN
    IF i = 0 THEN <<s>>
    ELSE <<SubSeq(s, 1, i - 1)>> \o split(SubSeq(s, i + Len(sep), Len(s)), sep)

RECURSIVE rstrip(_)
rstrip(s) ==
    IF s # <<>> /\ s[Len(s)] \in Whitespace THEN rstrip(SubSeq(s, 1, Len(s) - 1)) ELSE s

\* str.replace(old, new): every occurrence of old, left to right, becomes new
RECURSIVE replace(_, _, _)
replace(s, old, new) ==
    LET i == Find(s, old, 1) IN
    IF i = 0 THEN s
    ELSE SubSeq(s, 1, i - 1) \o new \o replace(SubSeq(s, i + Len(old), Len(s)), old, new)

\* a byte that is no valid UTF-8; every other byte of a body is an ASCII character
InvalidByte == "xFF"

\* bytes.decode("utf-8", "strict")
DecodeFails(content) == \E i \in 1..Len(content) : content[i] = InvalidByte

-----------------------------------------------------------------------------
(* The strings of modify.py *)

InfoFedora == <<"i","n","f","o",":","f","e","d","o","r","a","/">>
HasModel == <<"i","n","f","o",":","f","e","d","o","r","a","/","f","e","d","o","r","a","-","s","y","s","t","e","m",":","d","e","f","/","m","o","d","e","l","#","h","a","s","M","o","d","e","l">>
CompoundCModel == <<"i","n","f","o",":","f","e","d","o","r","a","/","i","s","l","a","n","d","o","r","a",":","c","o","m","p","o","u","n","d","C","M","o","d","e","l">>
BookCModel == <<"i","n","f","o",":","f","e","d","o","r","a","/","i","s","l","a","n","d","o","r","a",":","b","o","o","k","C","M","o","d","e","l">>
LargeImageCModel == <<"i","n","f","o",":","f","e","d","o","r","a","/","i","s","l","a","n","d","o","r","a",":","s","p","_","l","a","r","g","e","_","i","m","a","g","e","_","c","m","o","d","e","l">>
PageCModel == <<"i","n","f","o",":","f","e","d","o","r","a","/","i","s","l","a","n","d","o","r","a",":","p","a","g","e","C","M","o","d","e","l">>
IsMemberOf == <<"i","n","f","o",":","f","e","d","o","r","a","/","f","e","d","o","r","a","-","s","y","s","t","e","m",":","d","e","f","/","r","e","l","a","t","i","o","n","s","-","e","x","t","e","r","n","a","l","#","i","s","M","e","m","b","e","r","O","f">>
IsConstituentOf == <<"i","n","f","o",":","f","e","d","o","r","a","/","f","e","d","o","r","a","-","s","y","s","t","e","m",":","d","e","f","/","r","e","l","a","t","i","o","n","s","-","e","x","t","e","r","n","a","l","#","i","s","C","o","n","s","t","i","t","u","e","n","t","O","f">>
IsSequenceNumber == <<"h","t","t","p",":","/","/","i","s","l","a","n","d","o","r","a",".","c","a","/","o","n","t","o","l","o","g","y","/","r","e","l","s","e","x","t","#","i","s","S","e","q","u","e","n","c","e","N","u","m","b","e","r">>
IsSequenceNumberOf == <<"h","t","t","p",":","/","/","i","s","l","a","n","d","o","r","a",".","c","a","/","o","n","t","o","l","o","g","y","/","r","e","l","s","e","x","t","#","i","s","S","e","q","u","e","n","c","e","N","u","m","b","e","r","O","f">>
IsPageOf == <<"h","t","t","p",":","/","/","i","s","l","a","n","d","o","r","a",".","c","a","/","o","n","t","o","l","o","g","y","/","r","e","l","s","e","x","t","#","i","s","P","a","g","e","O","f">>
IsSection == <<"h","t","t","p",":","/","/","i","s","l","a","n","d","o","r","a",".","c","a","/","o","n","t","o","l","o","g","y","/","r","e","l","s","e","x","t","#","i","s","S","e","c","t","i","o","n">>
\* the predicate of the purge written after "return message"
IsPageNumber == <<"h","t","t","p",":","/","/","i","s","l","a","n","d","o","r","a",".","c","a","/","o","n","t","o","l","o","g","y","/","r","e","l","s","e","x","t","#","i","s","P","a","g","e","N","u","m","b","e","r">>
SectionOne == <<"1">>
ParentOpen == <<"<","i","s","M","e","m","b","e","r","O","f"," ","x","m","l","n","s","=","\"","i","n","f","o",":","f","e","d","o","r","a","/","f","e","d","o","r","a","-","s","y","s","t","e","m",":","d","e","f","/","r","e","l","a","t","i","o","n","s","-","e","x","t","e","r","n","a","l","#","\""," ","r","d","f",":","r","e","s","o","u","r","c","e","=","\"">>
ParentClose == <<"\"","/",">">>
SequenceOpen == <<"<","i","s","S","e","q","u","e","n","c","e","N","u","m","b","e","r"," ","x","m","l","n","s","=","\"","h","t","t","p",":","/","/","i","s","l","a","n","d","o","r","a",".","c","a","/","o","n","t","o","l","o","g","y","/","r","e","l","s","e","x","t","#","\"",">">>
SequenceClose == <<"<","/","i","s","S","e","q","u","e","n","c","e","N","u","m","b","e","r",">">>

\* f'info:fedora/{pid}'
SubjectOf(p) == InfoFedora \o p

\* str(is_literal) as the f-string renders the keyword argument
LiteralText(is_literal) == IF is_literal THEN <<"T","r","u","e">> ELSE <<"F","a","l","s","e">>

-----------------------------------------------------------------------------
(* How a call ends *)

\* a returned value, with its Python type
Returned(type, v) == [kind |-> "return", type |-> type, value |-> v]

\* the Exception raised by add_relationship and purge_relationship, by the fields of its message
RelationshipError(verb, p, subject, predicate, obj, is_literal, status) ==
    [kind |-> "raise", type |-> "Exception",
     text |-> verb, pid |-> p, subject |-> subject, predicate |-> predicate,
     object |-> obj, isLiteral |-> LiteralText(is_literal), status |-> status]

\* the Exception raised by the two lookups, by the fields of its message
LookupError(p, status) ==
    [kind |-> "raise", type |-> "Exception",
     text |-> "Unable to find relationships to", pid |-> p, status |-> status]

\* list[1] on a list of one element
IndexError == [kind |-> "raise", type |-> "IndexError"]

UnicodeDecodeError == [kind |-> "raise", type |-> "UnicodeDecodeError"]

\* FedoraObject has no attribute clean_up
AttributeError == [kind |-> "raise", type |-> "AttributeError", attribute |-> "clean_up"]

-----------------------------------------------------------------------------
(* The relationship client.  Each operator is one call of the method, given *)
(* the response the repository sends: the request issued, the status        *)
(* received and how the call ends.                                          *)

RelationshipQuery(subject, predicate, obj, is_literal) ==
    << <<"subject", quote(subject, {})>>,
       <<"predicate", quote(predicate, {})>>,
       <<"object", quote(obj, {})>>,
       <<"isLiteral", LiteralText(is_literal)>> >>

\* the triple a POST or DELETE names
TripleOf(subject, predicate, obj, is_literal) ==
    [subject |-> subject, predicate |-> predicate, object |-> obj, literal |-> is_literal]

\* add_relationship taking every 2xx status for success
add_result_any_2xx(p, subject, predicate, obj, is_literal, status) ==
    IF status \in 200..299 THEN Returned("int", status)
    ELSE RelationshipError("Unable to add relationship on", p, subject, predicate, obj, is_literal, status)

\* add_relationship returning the status code whatever it is
add_result_never_raises(p, subject, predicate, obj, is_literal, status) ==
    Returned("int", status)

add_result(p, subject, predicate, obj, is_literal, status) ==
    IF status = OK THEN Returned("int", status)
    ELSE RelationshipError("Unable to add relationship on", p, subject, predicate, obj, is_literal, status)

add_relationship(p, subject, predicate, obj, is_literal, status) ==
    [op |-> "add",
     request |-> [method |-> "POST",
                  path |-> <<"/","f","e","d","o","r","a","/","o","b","j","e","c","t","s","/">> \o p \o <<"/","r","e","l","a","t","i","o","n","s","h","i","p","s","/","n","e","w">>,
                  query |-> RelationshipQuery(subject, predicate, obj, is_literal)],
     triple |-> TripleOf(subject, predicate, obj, is_literal),
     status |-> status,
     result |-> add_result(p, subject, predicate, obj, is_literal, status)]

purge_result(p, subject, predicate, obj, is_literal, status) ==
    IF status = OK THEN Returned("int", status)
    ELSE RelationshipError("Unable to purge relationship on", p, subject, predicate, obj, is_literal, status)

purge_relationship(p, subject, predicate, obj, is_literal, status) ==
    [op |-> "purge",
     request |-> [method |-> "DELETE",
                  path |-> <<"/","f","e","d","o","r","a","/","o","b","j","e","c","t","s","/">> \o p \o <<"/","r","e","l","a","t","i","o","n","s","h","i","p","s">>,
                  query |-> RelationshipQuery(subject, predicate, obj, is_literal)],
     triple |-> TripleOf(subject, predicate, obj, is_literal),
     status |-> status,
     result |-> purge_result(p, subject, predicate, obj, is_literal, status)]

\* the query of the two lookups: only the pid of the subject goes through quote
LookupQuery(p, predicate) ==
    << <<"subject", InfoFedora \o quote(p, {})>>,
       <<"predicate", quote(predicate, {})>> >>

\* response.split(open)[1].split(close)[0]
Between(response, open, close) ==
    LET parts == split(response, open) IN
    IF Len(parts) < 2 THEN IndexError
    ELSE Returned("str", split(parts[2], close)[1])

lookup_result(p, open, close, status, content) ==
    IF status = OK
    THEN IF DecodeFails(content) THEN UnicodeDecodeError
         ELSE Between(content, open, close)
    ELSE LookupError(p, status)

get_parent_of_pid(p, status, content) ==
    [op |-> "get_parent_of_pid",
     request |-> [method |-> "GET",
                  path |-> <<"/","f","e","d","o","r","a","/","o","b","j","e","c","t","s","/">> \o p \o <<"/","r","e","l","a","t","i","o","n","s","h","i","p","s">>,
                  query |-> LookupQuery(p, IsMemberOf)],
     status |-> status,
     content |-> content,
     result |-> lookup_result(p, ParentOpen, ParentClose, status, content)]

get_sequence_number(p, status, content) ==
    [op |-> "get_sequence_number",
     request |-> [method |-> "GET",
                  path |-> <<"/","f","e","d","o","r","a","/","o","b","j","e","c","t","s","/">> \o p \o <<"/","r","e","l","a","t","i","o","n","s","h","i","p","s">>,
                  query |-> LookupQuery(p, IsSequenceNumber)],
     status |-> status,
     content |-> content,
     result |-> lookup_result(p, SequenceOpen, SequenceClose, status, content)]

-----------------------------------------------------------------------------
(* The repository *)

\* the status codes the repository answers with
Statuses == {200, 201, 400, 404, 500}

\* the relationships after the repository has answered a POST or a DELETE: the
\* change is applied exactly when the answer is 200
Repository(ts, call) ==
    IF call.status # OK THEN ts
    ELSE IF call.request.method = "POST" THEN ts \cup {call.triple}
    ELSE IF call.request.method = "DELETE" THEN ts \ {call.triple}
    ELSE ts

ParentValue == <<"i","n","f","o",":","f","e","d","o","r","a","/","b","o","o","k","C","o","l","l",":","2","9","5">>
OtherParentValue == <<"i","n","f","o",":","f","e","d","o","r","a","/","b","o","o","k","C","o","l","l",":","1">>
SequenceValue == <<"6","3">>
OtherSequenceValue == <<"7">>
RdfOpen == <<"<","r","d","f",":","R","D","F",">">>
RdfClose == <<"<","/","r","d","f",":","R","D","F",">">>

\* response bodies of GET ...&predicate=...isMemberOf
ParentBodyList ==
    << RdfOpen \o ParentOpen \o ParentValue \o ParentClose \o RdfClose,
       RdfOpen \o RdfClose,
       RdfOpen \o ParentOpen \o ParentValue \o <<" ">> \o ParentClose \o RdfClose,
       <<InvalidByte>>,
       RdfOpen \o ParentOpen \o ParentValue \o RdfClose,
       <<>>,
       RdfOpen \o ParentOpen \o OtherParentValue \o ParentClose
               \o ParentOpen \o ParentValue \o ParentClose \o RdfClose,
       RdfOpen \o ParentOpen \o ParentClose \o RdfClose >>

\* response bodies of GET ...&predicate=...isSequenceNumber
SequenceBodyList ==
    << RdfOpen \o SequenceOpen \o SequenceValue \o SequenceClose \o RdfClose,
       RdfOpen \o RdfClose,
       RdfOpen \o SequenceOpen \o SequenceValue \o <<"\n">> \o SequenceClose \o RdfClose,
       <<InvalidByte>>,
       RdfOpen \o SequenceOpen \o SequenceValue \o RdfClose,
       <<>>,
       RdfOpen \o SequenceOpen \o OtherSequenceValue \o SequenceClose
               \o SequenceOpen \o SequenceValue \o SequenceClose \o RdfClose,
       RdfOpen \o SequenceOpen \o SequenceClose \o RdfClose >>

ParentBodies == {ParentBodyList[i] : i \in 1..NumBodies}
SequenceBodies == {SequenceBodyList[i] : i \in 1..NumBodies}

-----------------------------------------------------------------------------
(* The command line *)

PidList == << <<"t","e","s","t",":","6">>, <<"b","o","o","k","C","o","l","l",":","2","9","6">>, <<"i","s","l","a","n","d","o","r","a",":","1">>, <<"a",":","b",":","2">> >>
PIDs == {PidList[i] : i \in 1..NumPids}

\* values of --model: the three run.py names, and two it does not
Models == {"compound", "large_image", "clean", "book", ""}

\* relationships an object may have when the run starts
StartTriples(p) ==
    LET T(predicate, obj, lit) == TripleOf(SubjectOf(p), predicate, obj, lit) IN
    { {},
      {T(HasModel, BookCModel, FALSE)},
      {T(HasModel, BookCModel, FALSE), T(HasModel, CompoundCModel, FALSE)},
      {T(HasModel, PageCModel, FALSE), T(IsMemberOf, ParentValue, FALSE),
       T(IsPageOf, ParentValue, FALSE), T(IsSequenceNumber, SequenceValue, TRUE),
       T(IsSection, SectionOne, TRUE)},
      {T(HasModel, PageCModel, FALSE), T(HasModel, LargeImageCModel, FALSE)} }

Running == [kind |-> "running"]

Init ==
    /\ pc = "main"
    /\ model \in Models
    /\ pid \in PIDs
    /\ start_triples \in StartTriples(pid)
    /\ triples = start_triples
    /\ log = <<>>
    /\ pid_parent = <<>>
    /\ sequence_number = <<>>
    /\ message = <<>>
    /\ outcome = Running
    /\ stdout = <<>>

-----------------------------------------------------------------------------
(* run.py *)

DispatchCompound ==
    /\ pc = "main"
    /\ model = "compound"
    /\ pc' = "book_add"
    /\ UNCHANGED <<model, pid, triples, start_triples, log, pid_parent, sequence_number,
                   message, outcome, stdout>>

DispatchLargeImage ==
    /\ pc = "main"
    /\ model # "compound"
    /\ model = "large_image"
    /\ pc' = "page_parent"
    /\ UNCHANGED <<model, pid, triples, start_triples, log, pid_parent, sequence_number,
                   message, outcome, stdout>>

\* FedoraObject(...).clean_up(args.pid): the class defines no clean_up
DispatchClean ==
    /\ pc = "main"
    /\ model \notin {"compound", "large_image"}
    /\ model = "clean"
    /\ pc' = "exit"
    /\ outcome' = AttributeError
    /\ UNCHANGED <<model, pid, triples, start_triples, log, pid_parent, sequence_number,
                   message, stdout>>

\* print(f'Operation not valid. Unknown model: {args.model}')
DispatchUnknown ==
    /\ pc = "main"
    /\ model \notin {"compound", "large_image", "clean"}
    /\ pc' = "exit"
    /\ stdout' = Append(stdout, [text |-> "Operation not valid. Unknown model: ", model |-> model])
    /\ outcome' = [kind |-> "exit"]
    /\ UNCHANGED <<model, pid, triples, start_triples, log, pid_parent, sequence_number,
                   message>>

-----------------------------------------------------------------------------
(* convert_book_to_compound_object *)

\* f"{pid} is now a compound object and no longer a book."
BookMessage(p) == p \o <<" ","i","s"," ","n","o","w"," ","a"," ","c","o","m","p","o","u","n","d"," ","o","b","j","e","c","t"," ","a","n","d"," ","n","o"," ","l","o","n","g","e","r"," ","a"," ","b","o","o","k",".">>

BookAdd ==
    /\ pc = "book_add"
    /\ \E status \in Statuses :
        LET call == add_relationship(pid, SubjectOf(pid), HasModel, CompoundCModel, FALSE, status) IN
        /\ log' = Append(log, call)
        /\ triples' = Repository(triples, call)
        /\ IF call.result.kind = "return"
           THEN pc' = "book_purge" /\ outcome' = outcome
           ELSE pc' = "exit" /\ outcome' = call.result
    /\ UNCHANGED <<model, pid, start_triples, pid_parent, sequence_number, message, stdout>>

\* the purge issued without is_literal=False
BookPurge_default_literal ==
    /\ pc = "book_purge"
    /\ \E status \in Statuses :
        LET call == purge_relationship(pid, SubjectOf(pid), HasModel, BookCModel, TRUE, status) IN
        /\ log' = Append(log, call)
        /\ triples' = Repository(triples, call)
        /\ pc' = "exit"
        /\ IF call.result.kind = "return"
           THEN outcome' = Returned("str", BookMessage(pid))
           ELSE outcome' = call.result
    /\ UNCHANGED <<model, pid, start_triples, pid_parent, sequence_number, message, stdout>>

\* a failed purge undone by purging the compound model again
BookPurge_rollback ==
    /\ pc = "book_purge"
    /\ \E status \in Statuses, undo_status \in Statuses :
        LET call == purge_relationship(pid, SubjectOf(pid), HasModel, BookCModel, FALSE, status)
            undo == purge_relationship(pid, SubjectOf(pid), HasModel, CompoundCModel, FALSE, undo_status)
        IN
        /\ pc' = "exit"
        /\ IF call.result.kind = "return"
           THEN /\ log' = Append(log, call)
                /\ triples' = Repository(triples, call)
                /\ outcome' = Returned("str", BookMessage(pid))
           ELSE /\ log' = log \o <<call, undo>>
                /\ triples' = Repository(Repository(triples, call), undo)
                /\ outcome' = call.result
    /\ UNCHANGED <<model, pid, start_triples, pid_parent, sequence_number, message, stdout>>

BookPurge ==
    /\ pc = "book_purge"
    /\ \E status \in Statuses :
        LET call == purge_relationship(pid, SubjectOf(pid), HasModel, BookCModel, FALSE, status) IN
        /\ log' = Append(log, call)
        /\ triples' = Repository(triples, call)
        /\ pc' = "exit"
        /\ IF call.result.kind = "return"
           THEN outcome' = Returned("str", BookMessage(pid))
           ELSE outcome' = call.result
    /\ UNCHANGED <<model, pid, start_triples, pid_parent, sequence_number, message, stdout>>

-----------------------------------------------------------------------------
(* convert_page_to_part_of_compound_object *)

PageGetParent ==
    /\ pc = "page_parent"
    /\ \E status \in Statuses, content \in ParentBodies :
        LET call == get_parent_of_pid(pid, status, content) IN
        /\ log' = Append(log, call)
        /\ IF call.result.kind = "return"
           THEN pid_parent' = call.result.value /\ pc' = "page_sequence" /\ outcome' = outcome
           ELSE pid_parent' = pid_parent /\ pc' = "exit" /\ outcome' = call.result
    /\ UNCHANGED <<model, pid, triples, start_triples, sequence_number, message, stdout>>

\* the sequence-number lookup with its error swallowed
PageGetSequence_swallowed ==
    /\ pc = "page_sequence"
    /\ \E status \in Statuses, content \in SequenceBodies :
        LET call == get_sequence_number(pid, status, content) IN
        /\ log' = Append(log, call)
        /\ sequence_number' = IF call.result.kind = "return" THEN call.result.value ELSE <<>>
        /\ pc' = "page_add_constituent"
        /\ outcome' = outcome
    /\ UNCHANGED <<model, pid, triples, start_triples, pid_parent, message, stdout>>

PageGetSequence ==
    /\ pc = "page_sequence"
    /\ \E status \in Statuses, content \in SequenceBodies :
        LET call == get_sequence_number(pid, status, content) IN
        /\ log' = Append(log, call)
        /\ IF call.result.kind = "return"
           THEN sequence_number' = call.result.value /\ pc' = "page_add_constituent"
                /\ outcome' = outcome
           ELSE sequence_number' = sequence_number /\ pc' = "exit" /\ outcome' = call.result
    /\ UNCHANGED <<model, pid, triples, start_triples, pid_parent, message, stdout>>

\* the predicate of step 3 with the colon of the parent PID left in
SequencePredicate_colon_kept(parent) ==
    IsSequenceNumberOf \o replace(rstrip(parent), InfoFedora, <<>>)

\* the predicate of step 3: the parent without "info:fedora/" and with "_" for ":"
SequencePredicate(parent) ==
    IsSequenceNumberOf \o replace(replace(rstrip(parent), InfoFedora, <<>>), <<":">>, <<"_">>)

\* message[label] = <the call>; an error raised by the call leaves the function
PageStep(here, next, label, call) ==
    /\ pc = here
    /\ log' = Append(log, call)
    /\ triples' = Repository(triples, call)
    /\ IF call.result.kind = "return"
       THEN /\ message' = Append(message, <<label, call.result.value>>)
            /\ pc' = next
            /\ outcome' = IF next = "exit" THEN Returned("dict", message') ELSE outcome
       ELSE /\ message' = message
            /\ pc' = "exit"
            /\ outcome' = call.result
    /\ UNCHANGED <<model, pid, start_triples, pid_parent, sequence_number, stdout>>

PageAddConstituent ==
    \E status \in Statuses :
        PageStep("page_add_constituent", "page_add_model", "added isConstituentOf",
                 add_relationship(pid, SubjectOf(pid), IsConstituentOf, pid_parent, FALSE, status))

PageAddModel ==
    \E status \in Statuses :
        PageStep("page_add_model", "page_add_sequence", "converted to large image",
                 add_relationship(pid, SubjectOf(pid), HasModel, LargeImageCModel, FALSE, status))

PageAddSequence ==
    \E status \in Statuses :
        PageStep("page_add_sequence", "page_purge_model", "added sequence of escaped pid",
                 add_relationship(pid, SubjectOf(pid), SequencePredicate(pid_parent),
                                  rstrip(sequence_number), TRUE, status))

PagePurgeModel ==
    \E status \in Statuses :
        PageStep("page_purge_model", "page_purge_page_of", "removed page content model",
                 purge_relationship(pid, SubjectOf(pid), HasModel, PageCModel, FALSE, status))

PagePurgePageOf ==
    \E status \in Statuses :
        PageStep("page_purge_page_of", "page_purge_sequence", "removed isPageOf",
                 purge_relationship(pid, SubjectOf(pid), IsPageOf, rstrip(pid_parent), FALSE, status))

PagePurgeSequence ==
    \E status \in Statuses :
        PageStep("page_purge_sequence", "page_purge_section", "removed isSequenceNumberOf",
                 purge_relationship(pid, SubjectOf(pid), IsSequenceNumber,
                                    rstrip(sequence_number), TRUE, status))

\* the last step before "return message"; the purge of isPageNumber after it is never reached
PagePurgeSection ==
    \E status \in Statuses :
        PageStep("page_purge_section", "exit", "removed isSection",
                 purge_relationship(pid, SubjectOf(pid), IsSection, SectionOne, TRUE, status))

-----------------------------------------------------------------------------

Next ==
    \/ DispatchCompound
    \/ DispatchLargeImage
    \/ DispatchClean
    \/ DispatchUnknown
    \/ BookAdd
    \/ BookPurge
    \/ PageGetParent
    \/ PageGetSequence
    \/ PageAddConstituent
    \/ PageAddModel
    \/ PageAddSequence
    \/ PagePurgeModel
    \/ PagePurgePageOf
    \/ PagePurgeSequence
    \/ PagePurgeSection

Spec == Init /\ [][Next]_vars

-----------------------------------------------------------------------------
(* Vocabulary of the properties *)

Calls == {log[i] : i \in 1..Len(log)}
IsMutating(call) == call.request.method \in {"POST", "DELETE"}
IsLookup(call) == call.request.method = "GET"
Failed(call) == call.result.kind = "raise"
MutatingCalls == SelectSeq(log, IsMutating)

\* what a mutating call asked of the repository
Asked(call) ==
    [op |-> call.op, subject |-> call.triple.subject, predicate |-> call.triple.predicate,
     object |-> call.triple.object, literal |-> call.triple.literal]

Step(op, predicate, obj, literal) ==
    [op |-> op, subject |-> InfoFedora \o pid, predicate |-> predicate, object |-> obj,
     literal |-> literal]

HasModelTriples(ts) == {t \in ts : t.predicate = HasModel}

BothLookupsSucceeded ==
    /\ Len(log) >= 2
    /\ ~Failed(log[1])
    /\ ~Failed(log[2])

-----------------------------------------------------------------------------
(* C1 *)

\* C1: in convert_page_to_part_of_compound_object the parent lookup and then the
\* sequence-number lookup are issued before any add or purge, and when either
\* lookup fails (a non-200 status, or a 200 whose body cannot be parsed) the
\* recipe ends in an error with no add and no purge issued and the
\* repository's relationships of the object unchanged.
C1_LookupsBeforeAnyWrite ==
    model = "large_image" =>
        /\ \A i \in 1..Len(log) :
               IsMutating(log[i]) =>
                   /\ i > 2
                   /\ log[1].op = "get_parent_of_pid" /\ ~Failed(log[1])
                   /\ log[2].op = "get_sequence_number" /\ ~Failed(log[2])
        /\ (\E c \in Calls : IsLookup(c) /\ Failed(c)) =>
               /\ pc = "exit"
               /\ outcome.kind = "raise"
               /\ \A c \in Calls : ~IsMutating(c)
               /\ triples = start_triples

\* the sequence-number lookup got a 200 whose body has no marker, on an object that has relationships
C1_Witness ==
    /\ model = "large_image"
    /\ pc = "exit"
    /\ Len(log) = 2
    /\ log[2].status = OK
    /\ Failed(log[2])
    /\ start_triples # {}

-----------------------------------------------------------------------------
(* C2 *)

\* C2: in convert_page_to_part_of_compound_object, once both lookups have
\* succeeded, all 7 add/purge steps are issued whatever their responses, and
\* the returned mapping holds an outcome for each of the 7 steps.
C2_AllStepsUnconditional ==
    (model = "large_image" /\ pc = "exit" /\ BothLookupsSucceeded) =>
        /\ Len(MutatingCalls) = 7
        /\ outcome.kind = "return"
        /\ outcome.type = "dict"
        /\ Len(outcome.value) = 7

-----------------------------------------------------------------------------
(* C3 *)

\* the parent PID without its "info:fedora/" prefix and with "_" for each ":"
EscapedParent(parent) ==
    LET n == Len(InfoFedora)
        bare == IF Len(parent) >= n /\ SubSeq(parent, 1, n) = InfoFedora
                THEN SubSeq(parent, n + 1, Len(parent))
                ELSE parent
    IN [i \in 1..Len(bare) |-> IF bare[i] = ":" THEN "_" ELSE bare[i]]

\* a value without the white space that ends it
Trimmed(v, t) ==
    /\ Len(t) <= Len(v)
    /\ t = SubSeq(v, 1, Len(t))
    /\ \A i \in (Len(t) + 1)..Len(v) : v[i] \in Whitespace
    /\ (t # <<>> => t[Len(t)] \notin Whitespace)

PageRunAllOk ==
    /\ model = "large_image"
    /\ pc = "exit"
    /\ BothLookupsSucceeded
    /\ \A c \in Calls : c.status = OK

\* C3: when both lookups succeed and every step returns 200, the recipe issues
\* exactly 7 mutating requests in this order: add isConstituentOf = parent, add
\* hasModel = sp_large_image_cmodel, add isSequenceNumberOf<parent> = sequence
\* number, purge hasModel = pageCModel, purge isPageOf = parent, purge
\* isSequenceNumber = sequence number, purge isSection = "1" (parent and
\* sequence number as the lookups returned them, steps 3, 5 and 6 without the
\* white space that ends them); it returns a mapping of exactly 7 labelled
\* outcomes; and the purge of isPageNumber is never issued.
C3_SevenStepsInOrder ==
    /\ \A c \in Calls : IsMutating(c) => c.triple.predicate # IsPageNumber
    /\ PageRunAllOk =>
        \E parent \in {log[1].result.value}, number \in {log[2].result.value} :
        \E parent_t \in {SubSeq(parent, 1, k) : k \in 0..Len(parent)},
           number_t \in {SubSeq(number, 1, k) : k \in 0..Len(number)} :
            /\ Trimmed(parent, parent_t)
            /\ Trimmed(number, number_t)
            /\ Len(log) = 9
            /\ [i \in 1..7 |-> Asked(MutatingCalls[i])] =
                << Step("add", IsConstituentOf, parent, FALSE),
                   Step("add", HasModel, LargeImageCModel, FALSE),
                   Step("add", IsSequenceNumberOf \o EscapedParent(parent_t), number_t, TRUE),
                   Step("purge", HasModel, PageCModel, FALSE),
                   Step("purge", IsPageOf, parent_t, FALSE),
                   Step("purge", IsSequenceNumber, number_t, TRUE),
                   Step("purge", IsSection, <<"1">>, TRUE) >>
            /\ outcome.kind = "return"
            /\ outcome.type = "dict"
            /\ outcome.value =
                << <<"added isConstituentOf", 200>>,
                   <<"converted to large image", 200>>,
                   <<"added sequence of escaped pid", 200>>,
                   <<"removed page content model", 200>>,
                   <<"removed isPageOf", 200>>,
                   <<"removed isSequenceNumberOf", 200>>,
                   <<"removed isSection", 200>> >>

\* a run of the page recipe in which everything answered 200, on a page whose
\* sequence number came back with a newline after it
C3_Witness ==
    /\ PageRunAllOk
    /\ log[2].result.value = <<"6", "3", "\n">>
    /\ \E t \in start_triples : t.object = PageCModel

-----------------------------------------------------------------------------
(* C4 *)

BookSteps ==
    << Step("add", HasModel, CompoundCModel, FALSE),
       Step("purge", HasModel, BookCModel, FALSE) >>

-----------------------------------------------------------------------------
(* C5 *)

BookHalfDone ==
    /\ model = "compound"
    /\ pc = "exit"
    /\ Len(log) = 2
    /\ log[1].status = 200
    /\ log[2].status # 200

\* C5: convert_book_to_compound_object is not atomic and does not roll back:
\* when the add of compoundCModel returns 200 and the purge of bookCModel
\* returns non-200, the recipe ends in an error, the object asserts the compound
\* model next to the book model it had, and no purge of compoundCModel is ever
\* issued.
C5_NoRollback ==
    /\ \A c \in Calls : c.op = "purge" => c.triple.object # CompoundCModel
    /\ BookHalfDone =>
        /\ outcome.kind = "raise"
        /\ CompoundCModel \in {t.object : t \in HasModelTriples(triples)}
        /\ \A t \in HasModelTriples(start_triples) : t \in triples

\* a book whose add was answered 200 and whose purge was answered 500
C5_Witness ==
    /\ BookHalfDone
    /\ log[2].status = 500
    /\ {t.object : t \in HasModelTriples(start_triples)} = {BookCModel}
    /\ {t.object : t \in HasModelTriples(triples)} = {BookCModel, CompoundCModel}

-----------------------------------------------------------------------------
(* C10 *)

\* C10: in both recipes the new content model is added before the old one is
\* purged, and a purge is only reached after every add before it returned 200;
\* so an object that asserts a hasModel triple when a recipe starts asserts one
\* in every state during and after the recipe, whatever steps fail.
C10_NeverWithoutModel ==
    /\ \A i, j \in 1..Len(log) :
           (i < j /\ log[i].op = "add" /\ log[j].op = "purge") => log[i].status = 200
    /\ \A j \in 1..Len(log) :
           (log[j].op = "purge" /\ log[j].triple.predicate = HasModel) =>
               \E i \in 1..(j - 1) :
                   /\ log[i].op = "add"
                   /\ log[i].triple.predicate = HasModel
                   /\ log[i].triple.object # log[j].triple.object
    /\ HasModelTriples(start_triples) # {} => HasModelTriples(triples) # {}

\* a recipe has purged the only content model the object had at the start
C10_Witness ==
    /\ pc = "exit"
    /\ Cardinality(HasModelTriples(start_triples)) = 1
    /\ HasModelTriples(start_triples) \cap triples = {}

-----------------------------------------------------------------------------
(* C6 *)

RaisedWithPidAndStatus(call) ==
    /\ call.result.kind = "raise"
    /\ call.result.type = "Exception"
    /\ call.result.pid = pid
    /\ call.result.status = call.status

\* C6 as stated: each of add, purge and read returns the status code unchanged
\* on 200 and raises an error carrying the PID and the status code on any
\* other status.
C6_Original ==
    \A c \in Calls :
        /\ c.status = 200 =>
               (c.result.kind = "return" /\ c.result.type = "int" /\ c.result.value = c.status)
        /\ c.status # 200 => RaisedWithPidAndStatus(c)

\* C6 amended: add and purge return the status code unchanged on 200; a lookup
\* answered 200 returns the text it parsed from the body, or fails parsing it,
\* and never returns the status code; add, purge and the lookups raise an error
\* carrying the PID and the status code on each of 201, 400, 404 and 500.
C6_StatusContract ==
    \A c \in Calls :
        /\ (c.status = 200 /\ IsMutating(c)) =>
               (c.result.kind = "return" /\ c.result.type = "int" /\ c.result.value = c.status)
        /\ (c.status = 200 /\ IsLookup(c)) =>
               \/ c.result.kind = "return" /\ c.result.type = "str"
               \/ c.result.kind = "raise" /\ c.result.type \in {"IndexError", "UnicodeDecodeError"}
        /\ c.status \in {201, 400, 404, 500} => RaisedWithPidAndStatus(c)

\* a lookup returned on 200, an add returned on 200 and the next add was answered 201
C6_Witness ==
    /\ Len(log) = 4
    /\ log[1].status = 200
    /\ log[3].status = 200
    /\ log[4].op = "add"
    /\ log[4].status = 201

-----------------------------------------------------------------------------
(* C7 *)

MarkerOf(call) == IF call.op = "get_parent_of_pid" THEN ParentOpen ELSE SequenceOpen

\* C7: a lookup answered 200 with a body that lacks the opening marker ends in
\* a malformed-response error of its own kind: not the error raised for a
\* non-200 response, not an indexing fault, and not a returned empty string.
C7_MalformedResponseError ==
    \A c \in Calls :
        (IsLookup(c) /\ c.status = 200 /\ Find(c.content, MarkerOf(c), 1) = 0) =>
            /\ c.result.kind = "raise"
            /\ c.result.type \notin {"Exception", "IndexError"}

-----------------------------------------------------------------------------
(* C8 *)

\* C8: in every request of add, purge and the two lookups, the subject,
\* predicate and object query values are percent-encoded with nothing left
\* safe, so no query value holds a bare ":" or "/".
C8_QueryValuesEncoded ==
    \A c \in Calls :
        \A k \in 1..Len(c.request.query) :
            c.request.query[k][1] \in {"subject", "predicate", "object"} =>
                \A n \in 1..Len(c.request.query[k][2]) :
                    c.request.query[k][2][n] \notin {":", "/"}

-----------------------------------------------------------------------------
(* C9 *)

\* C9: for every value of the model flag the dispatcher ends in a defined
\* outcome and never in a fault of its own: compound runs the book recipe on
\* the PID, large_image runs the page recipe on it, clean is accepted and
\* issues no request, and any other value prints a message naming the value,
\* issues no request and exits without raising.
C9_DispatchDefined ==
    pc = "exit" =>
        CASE model = "compound" ->
                 /\ Len(log) >= 1
                 /\ Asked(log[1]) = Step("add", HasModel, CompoundCModel, FALSE)
          [] model = "large_image" ->
                 /\ Len(log) >= 1
                 /\ log[1].op = "get_parent_of_pid"
          [] model = "clean" ->
                 /\ log = <<>>
                 /\ outcome.kind # "raise"
          [] OTHER ->
                 /\ log = <<>>
                 /\ outcome.kind # "raise"
                 /\ Len(stdout) = 1
                 /\ stdout[1].model = model

====
